---- MODULE Spec2Model ----
(***************************************************************************)
(* my_shared_ptr / my_weak_ptr / control_block of shared_and_weak.cpp as a *)
(* state machine.  The heap holds one record per managed object: its       *)
(* control block (the two atomic counters) and its payload.  Pointer       *)
(* instances are slots holding a control-block reference; ptr and control  *)
(* are always set together in the source, so one field stands for the      *)
(* pair.  Spec runs whole member functions one at a time; SpecConc runs    *)
(* them on threads, one atomic operation per step.                         *)
(***************************************************************************)
EXTENDS Integers, FiniteSets, Sequences, TLC

\* ---- bounds of the model
NumBlocks == 2
NumSP == 3
NumWP == 2
NumThreads == 2
MaxDtors == 2
MaxFrees == 2
MaxGarbage == 2
MaxWeak == 2
NumUP == 3
NumUObj == 3

\* ---- program constants
nullptr == 0
InitStrong == 1
InitWeak == 0

Blocks == 1..NumBlocks
SP == 1..NumSP
WP == 1..NumWP
Threads == 1..NumThreads
\* values a read of freed memory may yield: zero, one, anything else
Garbage == 0..MaxGarbage

VARIABLES heap, sp, wp, th, up, uobj

vars == <<heap, sp, wp, th, up, uobj>>

\* ---- the heap ------------------------------------------------------------

\* storage that was never allocated.  dtors, frees, uaf and holders record
\* what happened to the object: runs of ~T(), frees of the control block, an
\* access to the freed control block, the threads that held an instance.
NoBlock ==
  [path |-> "none", cb |-> "none", strong |-> 0, weak |-> 0,
   obj |-> "none", mem |-> "none", dtors |-> 0, frees |-> 0, uaf |-> FALSE,
   holders |-> {}]

\* control_block(): strong_count(1), weak_count(0), next to a constructed payload
NewBlock(path) ==
  [path |-> path, cb |-> "live", strong |-> InitStrong, weak |-> InitWeak,
   obj |-> "alive", mem |-> "live", dtors |-> 0, frees |-> 0, uaf |-> FALSE,
   holders |-> {}]

Unallocated(h) == {b \in Blocks : h[b].path = "none"}

\* the allocator hands out fresh storage, lowest address first
FreshBlock(h) == CHOOSE b \in Unallocated(h) : \A c \in Unallocated(h) : b <= c

\* the history counters stay within the model's bounds
Bounded(h) ==
  \A b \in Blocks : h[b].dtors <= MaxDtors /\ h[b].frees <= MaxFrees /\ h[b].weak <= MaxWeak

\* strong_count.load(): a freed control block yields an indeterminate value
StrongLoad(h, c) ==
  IF h[c].cb = "live" THEN {h[c].strong} ELSE Garbage

\* strong_count.fetch_add(1)
StrongFetchAdd(h, c) ==
  IF h[c].cb = "live"
  THEN {[h EXCEPT ![c].strong = @ + 1]}
  ELSE {[h EXCEPT ![c].uaf = TRUE]}

\* strong_count.fetch_sub(1): the new heap and the value before
StrongFetchSub(h, c) ==
  IF h[c].cb = "live"
  THEN {[h |-> [h EXCEPT ![c].strong = @ - 1], old |-> h[c].strong]}
  ELSE {[h |-> [h EXCEPT ![c].uaf = TRUE], old |-> v] : v \in Garbage}

\* control_block::add_weak
add_weak(h, c) ==
  IF h[c].cb = "live"
  THEN {[h EXCEPT ![c].weak = @ + 1]}
  ELSE {[h EXCEPT ![c].uaf = TRUE]}

\* weak_count.fetch_sub(1): the new heap and the value before
WeakFetchSub(h, c) ==
  IF h[c].cb = "live"
  THEN {[h |-> [h EXCEPT ![c].weak = @ - 1], old |-> h[c].weak]}
  ELSE {[h |-> [h EXCEPT ![c].uaf = TRUE], old |-> v] : v \in Garbage}

\* delete this: the control block's allocation is returned; on the combined
\* path that allocation also holds the payload.  What the freed counters hold
\* is indeterminate from here on, so they are kept at zero.
DeleteThis(h, c) ==
  [h EXCEPT ![c].cb = "freed", ![c].strong = 0, ![c].weak = 0,
            ![c].frees = @ + 1,
            ![c].mem = IF h[c].path = "combined" THEN "freed" ELSE @]

\* a release that takes fetch_sub to return the value after the decrement
WasLast_NewValue(old) == old = 0

\* the test both release paths make on the value fetch_sub returned
WasLast(old) == old = 1

\* control_block::release_weak
release_weak(h, c) ==
  UNION {IF WasLast(r.old) THEN {DeleteThis(r.h, c)} ELSE {r.h} : r \in WeakFetchSub(h, c)}

\* ptr->~T()
DestroyPayload(h, c) ==
  [h EXCEPT ![c].obj = "destroyed", ![c].dtors = @ + 1]

\* my_shared_ptr::release
release(h, c) ==
  IF c = nullptr THEN {h}
  ELSE UNION {IF WasLast(r.old) THEN release_weak(DestroyPayload(r.h, c), c) ELSE {r.h}
              : r \in StrongFetchSub(h, c)}

\* a copy that takes the pair without counting itself
RetainStrong_NoCount(h, c) == {h}

\* the strong retain of the copy constructor and of copy assignment
RetainStrong(h, c) == IF c = nullptr THEN {h} ELSE StrongFetchAdd(h, c)

\* the weak retain of the my_weak_ptr constructors and assignment
RetainWeak(h, c) == IF c = nullptr THEN {h} ELSE add_weak(h, c)

\* my_weak_ptr::reset, on the heap
reset(h, c) == IF c = nullptr THEN {h} ELSE release_weak(h, c)

\* my_shared_ptr::use_count and my_weak_ptr::use_count: the values it may return
use_count(h, c) == IF c = nullptr THEN {0} ELSE StrongLoad(h, c)

\* my_weak_ptr::expired: the values it may return
expired(h, c) == {v = 0 : v \in use_count(h, c)}

\* ---- pointer instances ---------------------------------------------------

\* a slot with no instance in it
Gone == [live |-> FALSE, control |-> nullptr]

\* an instance holding control block c (nullptr: an empty instance)
Holding(c) == [live |-> TRUE, control |-> c]

Idle == [pc |-> "idle", b |-> nullptr, d |-> 0]

\* ---- my_unique_ptr: instances and the objects they own ---------------------

UP == 1..NumUP
UObjs == 1..NumUObj

\* a slot with no my_unique_ptr in it
UGone == [live |-> FALSE, rawPtr |-> nullptr]

\* a my_unique_ptr whose rawPtr is p
Owning(p) == [live |-> TRUE, rawPtr |-> p]

\* storage new T has not handed out; dtors counts the runs of ~T()
NoObject == [state |-> "none", dtors |-> 0]

\* the object new T(...) returns
NewObject == [state |-> "alive", dtors |-> 0]

Init ==
  /\ heap = [b \in Blocks |-> NoBlock]
  /\ sp = [s \in SP |-> Gone]
  /\ wp = [w \in WP |-> Gone]
  /\ th = [t \in Threads |-> Idle]
  /\ up = [u \in UP |-> UGone]
  /\ uobj = [o \in UObjs |-> NoObject]

\* ---- my_shared_ptr, whole member functions -------------------------------

\* an assignment without the self-assignment test
NotSame_Unchecked(d, s) == TRUE

\* this != &other
NotSame(d, s) == d # s

\* a move that leaves the source holding the pair
Emptied_Kept(c) == c

\* other.ptr = nullptr; other.control = nullptr
Emptied(c) == nullptr

\* my_shared_ptr()
DefaultCtor(s) ==
  /\ ~sp[s].live
  /\ sp' = [sp EXCEPT ![s] = Holding(nullptr)]
  /\ UNCHANGED <<heap, wp, th, up, uobj>>

\* make_shared: one allocation for control block and payload
MakeShared(s) ==
  /\ ~sp[s].live
  /\ Unallocated(heap) # {}
  /\ LET b == FreshBlock(heap) IN
       /\ heap' = [heap EXCEPT ![b] = NewBlock("combined")]
       /\ sp' = [sp EXCEPT ![s] = Holding(b)]
  /\ UNCHANGED <<wp, th, up, uobj>>

\* my_shared_ptr(T* p) on a payload the caller allocated with new
RawCtor(s) ==
  /\ ~sp[s].live
  /\ Unallocated(heap) # {}
  /\ LET b == FreshBlock(heap) IN
       /\ heap' = [heap EXCEPT ![b] = NewBlock("raw")]
       /\ sp' = [sp EXCEPT ![s] = Holding(b)]
  /\ UNCHANGED <<wp, th, up, uobj>>

\* my_shared_ptr(const my_shared_ptr&)
CopyCtor(d, s) ==
  /\ ~sp[d].live /\ sp[s].live
  /\ \E h \in RetainStrong(heap, sp[s].control) : heap' = h
  /\ sp' = [sp EXCEPT ![d] = Holding(sp[s].control)]
  /\ UNCHANGED <<wp, th, up, uobj>>

\* my_shared_ptr(my_shared_ptr&&)
MoveCtor(d, s) ==
  /\ ~sp[d].live /\ sp[s].live
  /\ sp' = [sp EXCEPT ![d] = Holding(sp[s].control),
                            ![s] = Holding(Emptied(sp[s].control))]
  /\ UNCHANGED <<heap, wp, th, up, uobj>>

\* operator=(const my_shared_ptr&)
CopyAssign(d, s) ==
  /\ sp[d].live /\ sp[s].live
  /\ IF NotSame(d, s)
     THEN /\ \E h1 \in release(heap, sp[d].control) :
               \E h2 \in RetainStrong(h1, sp[s].control) :
                  /\ Bounded(h2)
                  /\ heap' = h2
          /\ sp' = [sp EXCEPT ![d] = Holding(sp[s].control)]
     ELSE UNCHANGED <<heap, sp>>
  /\ UNCHANGED <<wp, th, up, uobj>>

\* operator=(my_shared_ptr&&)
MoveAssign(d, s) ==
  /\ sp[d].live /\ sp[s].live
  /\ IF NotSame(d, s)
     THEN /\ \E h1 \in release(heap, sp[d].control) :
               /\ Bounded(h1)
               /\ heap' = h1
          /\ sp' = [sp EXCEPT ![d] = Holding(sp[s].control),
                            ![s] = Holding(Emptied(sp[s].control))]
     ELSE UNCHANGED <<heap, sp>>
  /\ UNCHANGED <<wp, th, up, uobj>>

\* ~my_shared_ptr
DestroyShared(s) ==
  /\ sp[s].live
  /\ \E h \in release(heap, sp[s].control) :
       /\ Bounded(h)
       /\ heap' = h
  /\ sp' = [sp EXCEPT ![s] = Gone]
  /\ UNCHANGED <<wp, th, up, uobj>>

\* ---- my_weak_ptr, whole member functions ---------------------------------

\* my_weak_ptr()
WeakDefaultCtor(w) ==
  /\ ~wp[w].live
  /\ wp' = [wp EXCEPT ![w] = Holding(nullptr)]
  /\ UNCHANGED <<heap, sp, th, up, uobj>>

\* my_weak_ptr(const my_shared_ptr&)
WeakFromShared(w, s) ==
  /\ ~wp[w].live /\ sp[s].live
  /\ \E h \in RetainWeak(heap, sp[s].control) : heap' = h
  /\ wp' = [wp EXCEPT ![w] = Holding(sp[s].control)]
  /\ UNCHANGED <<sp, th, up, uobj>>

\* my_weak_ptr(const my_weak_ptr&)
WeakCopyCtor(w, o) ==
  /\ ~wp[w].live /\ wp[o].live
  /\ \E h \in RetainWeak(heap, wp[o].control) : heap' = h
  /\ wp' = [wp EXCEPT ![w] = Holding(wp[o].control)]
  /\ UNCHANGED <<sp, th, up, uobj>>

\* my_weak_ptr::operator=(const my_shared_ptr&)
WeakAssignShared(w, s) ==
  /\ wp[w].live /\ sp[s].live
  /\ \E h1 \in reset(heap, wp[w].control) :
       \E h2 \in RetainWeak(h1, sp[s].control) :
          /\ Bounded(h2)
          /\ heap' = h2
  /\ wp' = [wp EXCEPT ![w] = Holding(sp[s].control)]
  /\ UNCHANGED <<sp, th, up, uobj>>

\* my_weak_ptr::operator=(const my_weak_ptr&), which the class does not
\* declare: the compiler's member-wise copy of ptr and control
WeakAssignWeak(w, o) ==
  /\ wp[w].live /\ wp[o].live
  /\ wp' = [wp EXCEPT ![w] = Holding(wp[o].control)]
  /\ UNCHANGED <<heap, sp, th, up, uobj>>

\* ~my_weak_ptr
DestroyWeak(w) ==
  /\ wp[w].live
  /\ \E h \in reset(heap, wp[w].control) :
       /\ Bounded(h)
       /\ heap' = h
  /\ wp' = [wp EXCEPT ![w] = Gone]
  /\ UNCHANGED <<sp, th, up, uobj>>

\* a load by a member function that goes on to act on it: reading a freed
\* control block is recorded
Touch(h, c) ==
  IF c # nullptr /\ h[c].cb = "freed" THEN [h EXCEPT ![c].uaf = TRUE] ELSE h

\* my_weak_ptr::lock, its result constructed in slot d: expired(), then
\* my_shared_ptr<T>(*this).  my_shared_ptr declares no constructor from a
\* my_weak_ptr, so the expression is read as the copy it spells: it takes the
\* pair and retains like the copy constructor.
Lock(w, d) ==
  /\ wp[w].live /\ ~sp[d].live
  /\ \E e \in expired(heap, wp[w].control) :
       IF ~e
       THEN /\ \E h \in RetainStrong(Touch(heap, wp[w].control), wp[w].control) : heap' = h
            /\ sp' = [sp EXCEPT ![d] = Holding(wp[w].control)]
       ELSE /\ heap' = Touch(heap, wp[w].control)
            /\ sp' = [sp EXCEPT ![d] = Holding(nullptr)]
  /\ UNCHANGED <<wp, th, up, uobj>>

Next ==
  \/ \E s \in SP : DefaultCtor(s)
  \/ \E s \in SP : MakeShared(s)
  \/ \E s \in SP : RawCtor(s)
  \/ \E d, s \in SP : CopyCtor(d, s)
  \/ \E d, s \in SP : MoveCtor(d, s)
  \/ \E d, s \in SP : CopyAssign(d, s)
  \/ \E d, s \in SP : MoveAssign(d, s)
  \/ \E s \in SP : DestroyShared(s)
  \/ \E w \in WP : WeakDefaultCtor(w)
  \/ \E w \in WP, s \in SP : WeakFromShared(w, s)
  \/ \E w, o \in WP : WeakCopyCtor(w, o)
  \/ \E w \in WP, s \in SP : WeakAssignShared(w, s)
  \/ \E w, o \in WP : WeakAssignWeak(w, o)
  \/ \E w \in WP : DestroyWeak(w)
  \/ \E w \in WP, d \in SP : Lock(w, d)

Spec == Init /\ [][Next]_vars

\* my_shared_ptr operations alone: no my_weak_ptr is ever constructed
NextShared ==
  \/ \E s \in SP : DefaultCtor(s)
  \/ \E s \in SP : MakeShared(s)
  \/ \E s \in SP : RawCtor(s)
  \/ \E d, s \in SP : CopyCtor(d, s)
  \/ \E d, s \in SP : MoveCtor(d, s)
  \/ \E d, s \in SP : CopyAssign(d, s)
  \/ \E d, s \in SP : MoveAssign(d, s)
  \/ \E s \in SP : DestroyShared(s)

SpecShared == Init /\ [][NextShared]_vars

\* ---- threads: one atomic operation per step -------------------------------

\* each thread works on its own instances
OwnerSP(s) == ((s - 1) % NumThreads) + 1
OwnerWP(w) == ((w - 1) % NumThreads) + 1

IsIdle(t) == th[t].pc = "idle"

\* the threads in ts have held an instance on control block c
Held(h, c, ts) == IF c = nullptr THEN h ELSE [h EXCEPT ![c].holders = @ \cup ts]

\* make_shared on a thread: nothing is shared before it returns
TMakeShared(t, s) ==
  /\ IsIdle(t) /\ OwnerSP(s) = t
  /\ ~sp[s].live
  /\ Unallocated(heap) # {}
  /\ LET b == FreshBlock(heap) IN
       /\ heap' = Held([heap EXCEPT ![b] = NewBlock("combined")], b, {t})
       /\ sp' = [sp EXCEPT ![s] = Holding(b)]
  /\ UNCHANGED <<wp, th, up, uobj>>

\* the copy constructor on a thread, from one of its own instances, into a
\* slot of its own or one handed to a thread that is not running an operation
TCopyCtor(t, d, s) ==
  /\ IsIdle(t) /\ OwnerSP(s) = t
  /\ OwnerSP(d) = t \/ IsIdle(OwnerSP(d))
  /\ ~sp[d].live /\ sp[s].live
  /\ \E h \in RetainStrong(heap, sp[s].control) :
       heap' = Held(h, sp[s].control, {OwnerSP(d)})
  /\ sp' = [sp EXCEPT ![d] = Holding(sp[s].control)]
  /\ UNCHANGED <<wp, th, up, uobj>>

\* release(), first step: the fetch_sub on strong_count
TReleaseStrong(t, s) ==
  /\ IsIdle(t) /\ OwnerSP(s) = t
  /\ sp[s].live
  /\ sp' = [sp EXCEPT ![s] = Gone]
  /\ LET c == sp[s].control IN
       IF c = nullptr
       THEN UNCHANGED <<heap, th>>
       ELSE \E r \in StrongFetchSub(heap, c) :
              /\ heap' = r.h
              /\ th' = [th EXCEPT ![t] =
                          IF WasLast(r.old) THEN [pc |-> "dtor", b |-> c, d |-> 0] ELSE Idle]
  /\ UNCHANGED <<wp, up, uobj>>

\* release(), second step: ptr->~T()
TDestroyPayload(t) ==
  /\ th[t].pc = "dtor"
  /\ Bounded(DestroyPayload(heap, th[t].b))
  /\ heap' = DestroyPayload(heap, th[t].b)
  /\ th' = [th EXCEPT ![t].pc = "release_weak"]
  /\ UNCHANGED <<sp, wp, up, uobj>>

\* release(), third step: control->release_weak()
TReleaseWeak(t) ==
  /\ th[t].pc = "release_weak"
  /\ \E h \in release_weak(heap, th[t].b) :
       /\ Bounded(h)
       /\ heap' = h
  /\ th' = [th EXCEPT ![t] = Idle]
  /\ UNCHANGED <<sp, wp, up, uobj>>

\* my_weak_ptr(const my_shared_ptr&) on a thread
TWeakFromShared(t, w, s) ==
  /\ IsIdle(t) /\ OwnerSP(s) = t
  /\ OwnerWP(w) = t \/ IsIdle(OwnerWP(w))
  /\ WeakFromShared(w, s)

\* ~my_weak_ptr on a thread
TDestroyWeak(t, w) ==
  /\ IsIdle(t) /\ OwnerWP(w) = t
  /\ DestroyWeak(w)

\* lock(), first step: the load of expired()
TLockCheck(t, w, d) ==
  /\ IsIdle(t) /\ OwnerWP(w) = t /\ OwnerSP(d) = t
  /\ wp[w].live /\ ~sp[d].live
  /\ heap' = Touch(heap, wp[w].control)
  /\ \E e \in expired(heap, wp[w].control) :
       IF ~e
       THEN /\ th' = [th EXCEPT ![t] = [pc |-> "lock_retain", b |-> wp[w].control, d |-> d]]
            /\ UNCHANGED sp
       ELSE /\ sp' = [sp EXCEPT ![d] = Holding(nullptr)]
            /\ UNCHANGED th
  /\ UNCHANGED <<wp, up, uobj>>

\* lock(), second step: the fetch_add of the instance it returns
TLockRetain(t) ==
  /\ th[t].pc = "lock_retain"
  /\ \E h \in RetainStrong(heap, th[t].b) : heap' = Held(h, th[t].b, {t})
  /\ sp' = [sp EXCEPT ![th[t].d] = Holding(th[t].b)]
  /\ th' = [th EXCEPT ![t] = Idle]
  /\ UNCHANGED <<wp, up, uobj>>

\* threads copying and destroying my_shared_ptr instances, no my_weak_ptr
NextConcShared ==
  \/ \E t \in Threads, s \in SP : TMakeShared(t, s)
  \/ \E t \in Threads, d, s \in SP : TCopyCtor(t, d, s)
  \/ \E t \in Threads, s \in SP : TReleaseStrong(t, s)
  \/ \E t \in Threads : TDestroyPayload(t)
  \/ \E t \in Threads : TReleaseWeak(t)

SpecConcShared == Init /\ [][NextConcShared]_vars

NextConc ==
  \/ \E t \in Threads, s \in SP : TMakeShared(t, s)
  \/ \E t \in Threads, d, s \in SP : TCopyCtor(t, d, s)
  \/ \E t \in Threads, s \in SP : TReleaseStrong(t, s)
  \/ \E t \in Threads : TDestroyPayload(t)
  \/ \E t \in Threads : TReleaseWeak(t)
  \/ \E t \in Threads, w \in WP, s \in SP : TWeakFromShared(t, w, s)
  \/ \E t \in Threads, w \in WP : TDestroyWeak(t, w)
  \/ \E t \in Threads, w \in WP, d \in SP : TLockCheck(t, w, d)
  \/ \E t \in Threads : TLockRetain(t)

SpecConc == Init /\ [][NextConc]_vars

\* ---- my_unique_ptr, whole member functions --------------------------------

UnallocatedObjs(uo) == {o \in UObjs : uo[o].state = "none"}

\* new T(...): fresh storage, lowest address first
FreshObj(uo) == CHOOSE o \in UnallocatedObjs(uo) : \A q \in UnallocatedObjs(uo) : o <= q

\* delete p: nothing for nullptr, else ~T() and the storage is returned
Delete(uo, p) ==
  IF p = nullptr THEN uo
  ELSE [uo EXCEPT ![p].state = "deleted", ![p].dtors = @ + 1]

UBounded(uo) == \A o \in UObjs : uo[o].dtors <= MaxDtors

\* a move that leaves the source pointing at the object
SrcAfterMove_Kept(p) == p

\* src.rawPtr = nullptr
SrcAfterMove(p) == nullptr

\* a move assignment that drops the destination's object without deleting it
DeleteOld_Forgotten(uo, p) == uo

\* delete rawPtr in the move assignment
DeleteOld(uo, p) == Delete(uo, p)

\* a move assignment without the self-assignment test
NotSelf_Unchecked(d, s) == TRUE

\* this != &src
NotSelf(d, s) == d # s

\* my_unique_ptr() = default
UDefaultCtor(u) ==
  /\ ~up[u].live
  /\ up' = [up EXCEPT ![u] = Owning(nullptr)]
  /\ UNCHANGED <<heap, sp, wp, th, uobj>>

\* make_unique: my_unique_ptr<T>(new T(...))
UMake(u) ==
  /\ ~up[u].live
  /\ UnallocatedObjs(uobj) # {}
  /\ LET o == FreshObj(uobj) IN
       /\ uobj' = [uobj EXCEPT ![o] = NewObject]
       /\ up' = [up EXCEPT ![u] = Owning(o)]
  /\ UNCHANGED <<heap, sp, wp, th>>

\* my_unique_ptr(my_unique_ptr&& src)
UMoveCtor(d, s) ==
  /\ ~up[d].live /\ up[s].live
  /\ up' = [[up EXCEPT ![d] = Owning(up[s].rawPtr)]
               EXCEPT ![s].rawPtr = SrcAfterMove(up[s].rawPtr)]
  /\ UNCHANGED <<heap, sp, wp, th, uobj>>

\* operator=(my_unique_ptr&& src): the three statements in order, so that
\* d = s reads what the earlier statements wrote
UMoveAssign(d, s) ==
  /\ up[d].live /\ up[s].live
  /\ IF NotSelf(d, s)
     THEN /\ UBounded(DeleteOld(uobj, up[d].rawPtr))
          /\ uobj' = DeleteOld(uobj, up[d].rawPtr)
          /\ LET up1 == [up EXCEPT ![d].rawPtr = up[s].rawPtr] IN
               up' = [up1 EXCEPT ![s].rawPtr = SrcAfterMove(up1[s].rawPtr)]
     ELSE UNCHANGED <<up, uobj>>
  /\ UNCHANGED <<heap, sp, wp, th>>

\* ~my_unique_ptr
UDestroy(u) ==
  /\ up[u].live
  /\ UBounded(Delete(uobj, up[u].rawPtr))
  /\ uobj' = Delete(uobj, up[u].rawPtr)
  /\ up' = [up EXCEPT ![u] = UGone]
  /\ UNCHANGED <<heap, sp, wp, th>>

NextUnique ==
  \/ \E u \in UP : UDefaultCtor(u)
  \/ \E u \in UP : UMake(u)
  \/ \E d, s \in UP : UMoveCtor(d, s)
  \/ \E d, s \in UP : UMoveAssign(d, s)
  \/ \E u \in UP : UDestroy(u)

SpecUnique == Init /\ [][NextUnique]_vars

\* ---- factories whose payload constructor throws ---------------------------

\* ::operator new and the placement new of the control block have run, T's
\* constructor has thrown: make_shared has no handler, so the exception
\* leaves it with the allocation and the control block as they are
AfterThrowInMakeShared ==
  [path |-> "combined", cb |-> "live", strong |-> InitStrong, weak |-> InitWeak,
   obj |-> "none", mem |-> "live", dtors |-> 0, frees |-> 0, uaf |-> FALSE,
   holders |-> {}]

\* make_shared with a throwing T(args...): no my_shared_ptr is constructed
MakeSharedThrows(s) ==
  /\ ~sp[s].live
  /\ Unallocated(heap) # {}
  /\ heap' = [heap EXCEPT ![FreshBlock(heap)] = AfterThrowInMakeShared]
  /\ UNCHANGED <<sp, wp, th, up, uobj>>

\* the storage new T(...) obtained, before T's constructor has finished
RawStorage == [state |-> "raw", dtors |-> 0]

\* a new-expression whose constructor throws returns the storage it obtained
NewExprThrows(uo, o) == [[uo EXCEPT ![o] = RawStorage] EXCEPT ![o] = NoObject]

\* make_unique with a throwing T(args...): no my_unique_ptr is constructed
UMakeThrows(u) ==
  /\ ~up[u].live
  /\ UnallocatedObjs(uobj) # {}
  /\ uobj' = NewExprThrows(uobj, FreshObj(uobj))
  /\ UNCHANGED <<heap, sp, wp, th, up>>

\* the factories, with payload constructors that may throw, and destruction
NextFactory ==
  \/ \E s \in SP : MakeShared(s)
  \/ \E s \in SP : MakeSharedThrows(s)
  \/ \E d, s \in SP : CopyCtor(d, s)
  \/ \E s \in SP : DestroyShared(s)
  \/ \E u \in UP : UMake(u)
  \/ \E u \in UP : UMakeThrows(u)
  \/ \E u \in UP : UDestroy(u)

SpecFactory == Init /\ [][NextFactory]_vars

\* ---- what the claims speak of --------------------------------------------

Allocated == {b \in Blocks : heap[b].path # "none"}

\* the live my_shared_ptr instances holding control block b
LiveOn(b) == {s \in SP : sp[s].live /\ sp[s].control = b}

\* the live my_unique_ptr instances whose rawPtr is object o
OwnersOf(o) == {u \in UP : up[u].live /\ up[u].rawPtr = o}

AllocatedObjs == {o \in UObjs : uobj[o].state # "none"}

\* the live my_weak_ptr instances holding control block b
WeakOn(b) == {w \in WP : wp[w].live /\ wp[w].control = b}

\* ---- claims ---------------------------------------------------------------

\* C1: the payload destructor runs exactly once, at the step that removes
\* the last my_shared_ptr holding the object: never while one remains, never
\* a second time, and it has run whenever none remains, whatever
\* my_weak_ptr instances exist.
C1_PayloadDestroyedExactlyOnce ==
  [][\A b \in Blocks :
       heap'[b].path # "none" =>
         /\ heap'[b].dtors <= 1
         /\ heap'[b].dtors # heap[b].dtors => LiveOn(b) # {} /\ LiveOn(b)' = {}
         /\ LiveOn(b)' = {} => heap'[b].dtors = 1]_vars

\* C2: while a non-empty my_shared_ptr holds a control block, that control
\* block has not been freed and has not been touched after a free.
C2_ControlBlockLiveWhileOwned ==
  \A b \in Allocated : LiveOn(b) # {} => heap[b].cb = "live" /\ ~heap[b].uaf

\* C3: once the last my_shared_ptr is gone and a my_weak_ptr still observes
\* the control block, the block is still allocated and expired() is true and
\* use_count() is 0 on it.
C3_ControlBlockOutlivesPayload ==
  \A b \in Allocated :
    (LiveOn(b) = {} /\ WeakOn(b) # {}) =>
       /\ heap[b].cb = "live"
       /\ use_count(heap, b) = {0}
       /\ expired(heap, b) = {TRUE}

\* C4: use_count() of every live my_shared_ptr is the number of live
\* instances holding the same object, and 0 for an empty instance.
C4_UseCountIsOwners ==
  \A s \in SP : sp[s].live =>
    use_count(heap, sp[s].control) =
      {IF sp[s].control = nullptr THEN 0 ELSE Cardinality(LiveOn(sp[s].control))}

\* two instances share one object, next to an emptied (moved-from) instance
C4_Witness ==
  \E b \in Allocated :
    /\ Cardinality(LiveOn(b)) = 2
    /\ use_count(heap, b) = {2}
    /\ \E s \in SP : sp[s].live /\ sp[s].control = nullptr

\* C6: without interference, lock() on a my_weak_ptr whose object still has a
\* live my_shared_ptr returns a non-empty instance on the same object and
\* raises strong_count by exactly one, weak_count unchanged; otherwise it
\* returns an empty instance and changes nothing in the heap.
C6_LockRetainsOrReturnsEmpty ==
  [][\A w \in WP, d \in SP :
       Lock(w, d) =>
         LET c == wp[w].control IN
           IF c # nullptr /\ LiveOn(c) # {}
           THEN /\ sp'[d] = Holding(c)
                /\ heap[c].cb = "live"
                /\ heap' = [heap EXCEPT ![c].strong = @ + 1]
           ELSE /\ sp'[d] = Holding(nullptr)
                /\ heap' = heap]_vars

\* C7: expired() is true on an empty my_weak_ptr, false while a
\* my_shared_ptr holds the object, true from the step that removes the last
\* one, and once true it stays true on that my_weak_ptr.
C7_ExpiredMonotonic ==
  [][\A w \in WP :
       (wp[w].live /\ wp'[w] = wp[w]) =>
         LET c == wp[w].control IN
           /\ c = nullptr => expired(heap, c) = {TRUE}
           /\ (c # nullptr /\ LiveOn(c) # {}) => expired(heap, c) = {FALSE}
           /\ (c # nullptr /\ LiveOn(c)' = {}) => expired(heap', c) = {TRUE}
           /\ expired(heap, c) = {TRUE} => expired(heap', c) = {TRUE}]_vars

\* C9: once every my_shared_ptr of a make_shared object is gone and no
\* my_weak_ptr was ever made, the combined allocation has been released
\* exactly once; it is never released while an owner remains.
C9_MetadataReleasedOnce ==
  \A b \in Allocated :
    heap[b].path = "combined" =>
      IF LiveOn(b) = {}
      THEN heap[b].cb = "freed" /\ heap[b].mem = "freed" /\ heap[b].frees = 1
      ELSE heap[b].cb = "live" /\ heap[b].frees = 0

\* C10: strong_count is never negative, the payload is alive exactly while
\* strong_count > 0, and the payload of every live non-empty my_shared_ptr
\* is constructed, not destroyed, and in storage that has not been freed.
C10_OwnedPayloadAlive ==
  \A b \in Allocated :
    /\ heap[b].cb = "live" =>
          heap[b].strong >= 0 /\ (heap[b].obj = "alive" <=> heap[b].strong > 0)
    /\ LiveOn(b) # {} => heap[b].obj = "alive" /\ heap[b].mem = "live"

\* C5: between the expired() check of lock() and its increment the payload
\* is not destroyed and strong_count does not reach zero, so the increment
\* never moves strong_count from 0 to 1.
C5_LockCheckThenRetainAtomic ==
  \A t \in Threads :
    (th[t].pc = "lock_retain" /\ heap[th[t].b].cb = "live" /\ ~heap[th[t].b].uaf) =>
       heap[th[t].b].strong > 0 /\ heap[th[t].b].obj = "alive"

\* the threads that saw fetch_sub return 1 on b and have yet to run ~T()
AboutToDestroy(b) == {t \in Threads : th[t].pc = "dtor" /\ th[t].b = b}

\* the threads inside release() for b
Releasing(b) == {t \in Threads : th[t].pc \in {"dtor", "release_weak"} /\ th[t].b = b}

\* C8: with threads copying and destroying their own instances, at most one
\* thread sees strong_count go from 1 to 0, the payload is destroyed once,
\* only after every holder has released, and no freed counter is touched.
C8_ConcurrentReleaseOnce ==
  \A b \in Allocated :
    /\ Cardinality(AboutToDestroy(b)) + heap[b].dtors <= 1
    /\ (AboutToDestroy(b) # {} \/ heap[b].dtors > 0) => LiveOn(b) = {} /\ heap[b].strong = 0
    /\ heap[b].obj = "destroyed" <=> heap[b].dtors = 1
    /\ (LiveOn(b) = {} /\ Releasing(b) = {}) => heap[b].dtors = 1
    /\ LiveOn(b) # {} => heap[b].obj = "alive" /\ heap[b].strong = Cardinality(LiveOn(b))
    /\ ~heap[b].uaf

\* an object both threads held has been destroyed, by the second thread
C8_Witness ==
  \E b \in Allocated :
    /\ heap[b].holders = Threads
    /\ heap[b].dtors = 1
    /\ th[2].pc = "release_weak" /\ th[2].b = b

\* C11: on every control block that has not been freed, weak_count is the
\* number of live my_weak_ptr instances observing it and is never negative.
C11_WeakCountIsObservers ==
  \A b \in Allocated :
    heap[b].cb = "live" =>
      heap[b].weak = Cardinality(WeakOn(b)) /\ heap[b].weak >= 0


\* C12: every object made for a my_unique_ptr has at most one owner, is
\* alive exactly while it has one, and has been destroyed exactly once when
\* it has none; no object is destroyed twice.
C12_UniqueOwnership ==
  \A o \in AllocatedObjs :
    /\ Cardinality(OwnersOf(o)) <= 1
    /\ uobj[o].dtors <= 1
    /\ uobj[o].state = "alive" <=> OwnersOf(o) # {}
    /\ OwnersOf(o) = {} => uobj[o].state = "deleted" /\ uobj[o].dtors = 1

\* every my_unique_ptr is gone after objects were made and moved: each object
\* has been destroyed once
C12_Witness ==
  /\ AllocatedObjs = UObjs
  /\ \A u \in UP : ~up[u].live
  /\ \A o \in UObjs : uobj[o].dtors = 1

\* C13: b = move(a) with a and b distinct destroys b's former object exactly
\* once, gives b the object a owned, empties a and leaves a's object
\* untouched; destroying a my_unique_ptr destroys its object once, and an
\* empty one destroys nothing.
C13_MoveAssignTransfers ==
  [][/\ \A d, s \in UP :
          (d # s /\ UMoveAssign(d, s)) =>
             /\ up'[d] = Owning(up[s].rawPtr)
             /\ up'[s] = Owning(nullptr)
             /\ \A o \in UObjs :
                  uobj'[o] = IF o = up[d].rawPtr
                             THEN [state |-> "deleted", dtors |-> 1]
                             ELSE uobj[o]
     /\ \A u \in UP :
          UDestroy(u) =>
             \A o \in UObjs :
               uobj'[o] = IF o = up[u].rawPtr
                          THEN [state |-> "deleted", dtors |-> 1]
                          ELSE uobj[o]]_vars

\* b, owning an object, can be move-assigned from a, owning another
C13_Witness ==
  \E d, s \in UP :
    /\ d # s /\ up[d].live /\ up[s].live
    /\ up[d].rawPtr # nullptr /\ up[s].rawPtr # nullptr
    /\ ENABLED (UMoveAssign(d, s) /\ uobj'[up[d].rawPtr].dtors = 1
                                  /\ up'[d].rawPtr = up[s].rawPtr)

\* C14: a = move(a) changes nothing: a keeps its handle and the object is
\* not destroyed.
C14_SelfMoveAssignNoOp ==
  [][\A u \in UP : UMoveAssign(u, u) => up' = up /\ uobj' = uobj]_vars

\* a my_unique_ptr owning a live object can be move-assigned to itself
C14_Witness ==
  \E u \in UP :
    /\ up[u].live /\ up[u].rawPtr # nullptr
    /\ uobj[up[u].rawPtr].state = "alive"
    /\ ENABLED (UMoveAssign(u, u) /\ up'[u] = up[u])


\* what a step adds to the strong_count and to the destructor runs of block c
StrongDelta(c) == heap'[c].strong - heap[c].strong
DtorDelta(c) == heap'[c].dtors - heap[c].dtors

\* 1 if the condition holds, else 0
Count(cond) == IF cond THEN 1 ELSE 0

\* C15: a = b between distinct my_shared_ptr instances takes one from the
\* strong_count of a's former object, destroys its payload iff a was the last
\* owner, makes a hold b's pair and adds one to that block's strong_count
\* (two instances already sharing an object leave it unchanged and alive);
\* a = a changes nothing.
C15_CopyAssignCounts ==
  [][\A d, s \in SP :
       CopyAssign(d, s) =>
         LET a == sp[d].control
             b == sp[s].control
         IN IF d = s
            THEN heap' = heap /\ sp' = sp
            ELSE /\ sp' = [sp EXCEPT ![d] = Holding(b)]
                 /\ \A c \in Blocks :
                      /\ StrongDelta(c) = Count(c = b) - Count(c = a)
                      /\ DtorDelta(c) = Count(c = a /\ LiveOn(a) = {d})
                      /\ (heap'[c].obj = "destroyed") = (heap'[c].dtors = 1)]_vars

\* the sole owner of one object can be assigned an instance of another
C15_Witness ==
  \E d, s \in SP :
    /\ d # s /\ sp[d].live /\ sp[s].live
    /\ sp[d].control # nullptr /\ sp[s].control # nullptr
    /\ sp[d].control # sp[s].control
    /\ LiveOn(sp[d].control) = {d}
    /\ ENABLED (CopyAssign(d, s) /\ heap'[sp[d].control].dtors = 1
                                 /\ heap'[sp[s].control].strong = 2)

\* C16: a move leaves the source empty and the destination holding the
\* source's former pair, and adds nothing to any strong_count; move
\* assignment first releases the destination's former object (one off its
\* strong_count, payload destroyed iff it was the last owner); destroying an
\* empty instance changes nothing, and self-move-assignment changes nothing.
C16_MoveTransfers ==
  [][/\ \A d, s \in SP :
          MoveCtor(d, s) =>
            /\ sp' = [sp EXCEPT ![d] = Holding(sp[s].control), ![s] = Holding(nullptr)]
            /\ use_count(heap', sp'[s].control) = {0}
            /\ heap' = heap
     /\ \A d, s \in SP :
          MoveAssign(d, s) =>
            LET a == sp[d].control
                b == sp[s].control
            IN IF d = s
               THEN heap' = heap /\ sp' = sp
               ELSE /\ sp' = [sp EXCEPT ![d] = Holding(b), ![s] = Holding(nullptr)]
                    /\ use_count(heap', sp'[s].control) = {0}
                    /\ \A c \in Blocks :
                         /\ StrongDelta(c) = 0 - Count(c = a)
                         /\ DtorDelta(c) = Count(c = a /\ LiveOn(a) = {d})
     /\ \A s \in SP :
          (DestroyShared(s) /\ sp[s].control = nullptr) => heap' = heap]_vars

\* the sole owner of one object can be move-assigned an instance of another
C16_Witness ==
  \E d, s \in SP :
    /\ d # s /\ sp[d].live /\ sp[s].live
    /\ sp[d].control # nullptr /\ sp[s].control # nullptr
    /\ sp[d].control # sp[s].control
    /\ LiveOn(sp[d].control) = {d}
    /\ ENABLED (MoveAssign(d, s) /\ heap'[sp[d].control].dtors = 1
                                 /\ sp'[s] = Holding(nullptr)
                                 /\ heap'[sp[s].control].strong = heap[sp[s].control].strong)


\* C17: after a factory call whose payload constructor threw, nothing the
\* call allocated remains allocated and no pointer refers to the partial
\* object.
C17_FailedFactoryRollsBack ==
  /\ \A b \in Blocks :
       (heap[b].path # "none" /\ heap[b].obj = "none") =>
          heap[b].cb # "live" /\ heap[b].mem # "live" /\ LiveOn(b) = {} /\ WeakOn(b) = {}
  /\ \A o \in UObjs : uobj[o].state # "raw" /\ (uobj[o].state = "none" => OwnersOf(o) = {})


\* what a step adds to the weak_count of block c
WeakDelta(c) == heap'[c].weak - heap[c].weak

\* control block c is allocated and was never touched after a free
Sound(h, c) == c = nullptr \/ (h[c].cb = "live" /\ ~h[c].uaf)

\* C18: wp = sp, on control blocks that are allocated, makes wp hold sp's
\* pair, takes one weak reference off wp's former block and adds one to
\* sp's; sp's block stays allocated with its strong_count unchanged, and
\* when wp already observed sp's block its weak_count is unchanged too.
C18_WeakAssignFromShared ==
  [][\A w \in WP, s \in SP :
       (WeakAssignShared(w, s) /\ Sound(heap, wp[w].control) /\ Sound(heap, sp[s].control)) =>
         LET a == wp[w].control
             b == sp[s].control
         IN /\ wp' = [wp EXCEPT ![w] = Holding(b)]
            /\ b # nullptr =>
                 /\ Sound(heap', b)
                 /\ heap'[b].strong = heap[b].strong
                 /\ WeakDelta(b) = 1 - Count(a = b)
            /\ (a # nullptr /\ a # b /\ heap'[a].cb = "live") => WeakDelta(a) = 0 - 1]_vars

\* C20: wp1 = wp2, on control blocks that are allocated, makes wp1 hold
\* wp2's pair, takes one weak reference off wp1's former block and adds one
\* to wp2's, so every live my_weak_ptr holds one counted reference.
C20_WeakCopyAssignBalanced ==
  [][\A w, o \in WP :
       (w # o /\ WeakAssignWeak(w, o) /\ Sound(heap, wp[w].control) /\ Sound(heap, wp[o].control)) =>
         LET a == wp[w].control
             b == wp[o].control
         IN /\ wp' = [wp EXCEPT ![w] = Holding(b)]
            /\ b # nullptr => Sound(heap', b) /\ WeakDelta(b) = 1 - Count(a = b)
            /\ (a # nullptr /\ a # b /\ heap'[a].cb = "live") => WeakDelta(a) = 0 - 1]_vars


\* C19: both construction paths give back what they allocated: once a
\* control block has been released, the storage of its payload has been
\* released as well, whether the two share one allocation (make_shared) or
\* are two allocations (raw pointer).
C19_PathsReleaseAlike ==
  \A b \in Allocated : heap[b].cb = "freed" => heap[b].mem = "freed"

====
